---- MODULE Spec2Model ----
(***************************************************************************)
(* The Gemini API proxy of src/main.py as a state machine: one inbound     *)
(* request on /v1beta/{path} is authenticated, translated into an outbound *)
(* request carrying the server-held API key, dispatched to the upstream,   *)
(* and the upstream response (or a failure) is turned into the response    *)
(* the client receives.                                                    *)
(*                                                                         *)
(* Strings that the code concatenates, searches or compares (tokens, the   *)
(* key, paths, bodies, log lines) are sequences of atoms; header and       *)
(* parameter names are single atoms.  An Optional[str] is a record         *)
(* [some, v]: os.getenv and Headers.get return None or a string.           *)
(***************************************************************************)
EXTENDS Integers, Sequences, FiniteSets, TLC

\* ------------------------------------------------------------------ bounds
MaxHeaders == 2       \* inbound headers per request
MaxParams == 2        \* inbound query parameters per request
MaxRespHeaders == 2   \* header lines of an upstream response
MaxChunks == 2        \* body chunks of an upstream response

\* --------------------------------------------------------- generic helpers
SeqsUpTo(S, n) == UNION {[1..k -> S] : k \in 0..n}

RECURSIVE Flatten(_)
Flatten(ss) == IF ss = <<>> THEN <<>> ELSE Head(ss) \o Flatten(Tail(ss))

\* x occurs in text as a contiguous run ("x in text" of Python, x non-empty)
Contains(text, x) ==
    /\ x # <<>>
    /\ \E i \in 1..Len(text) :
          /\ i + Len(x) - 1 <= Len(text)
          /\ SubSeq(text, i, i + Len(x) - 1) = x

None == [some |-> FALSE, v |-> <<>>]
Some(s) == [some |-> TRUE, v |-> s]
\* Python truthiness of an Optional[str]: None and "" are falsy
Truthy(o) == o.some /\ o.v # <<>>

\* str.lower() on the header names that occur in the model
lower(k) ==
    CASE k = "X-App-Token" -> "x-app-token"
      [] k = "X-APP-TOKEN" -> "x-app-token"
      [] k = "Host" -> "host"
      [] k = "Content-Length" -> "content-length"
      [] k = "Transfer-Encoding" -> "transfer-encoding"
      [] k = "Connection" -> "connection"
      [] k = "Accept" -> "accept"
      [] k = "Content-Type" -> "content-type"
      [] k = "Content-Encoding" -> "content-encoding"
      [] k = "X-Goog-Trace" -> "x-goog-trace"
      [] OTHER -> k

\* ------------------------------------------------- Python dict, as a list
\* A dict is an insertion-ordered list of <<key, value>> with distinct keys.
Keys(d) == {d[i][1] : i \in 1..Len(d)}

DictGet(d, k) == d[CHOOSE i \in 1..Len(d) : d[i][1] = k][2]

\* d[k] = v : overwrite in place when k is present, else insert at the end
DictSet(d, k, v) ==
    IF k \in Keys(d)
    THEN [i \in 1..Len(d) |-> IF d[i][1] = k THEN <<k, v>> ELSE d[i]]
    ELSE Append(d, <<k, v>>)

\* dict(pairs) and {k: v for k, v in pairs}: the last value of a key wins
RECURSIVE DictFromPairsAcc(_, _)
DictFromPairsAcc(d, pairs) ==
    IF pairs = <<>> THEN d
    ELSE DictFromPairsAcc(DictSet(d, Head(pairs)[1], Head(pairs)[2]), Tail(pairs))

DictFromPairs(pairs) == DictFromPairsAcc(<<>>, pairs)

\* ------------------------------------------------------------ configuration
GOOGLE_API_BASE == <<"https://generativelanguage.googleapis.com">>

VARIABLES
    APP_TOKEN,            \* os.getenv("APP_TOKEN"): Optional[str]
    GEMINI_API_KEY,       \* os.getenv("GEMINI_API_KEY"): Optional[str]
    DEBUG_MODE,           \* BOOLEAN
    request,              \* the inbound request
    pc,                   \* where the handler stands
    target_url, params, headers, body,   \* locals of proxy_gemini_api
    response,             \* result of client.request
    content_type,
    stream_response_obj,  \* result of client.stream
    client_open,          \* inside "async with httpx.AsyncClient(...)"
    outbound,             \* the calls made to the upstream, in order
    reply,                \* what the client has received
    failure,              \* the transport failure the upstream exchange met
    log                   \* the lines written through logger

config == <<APP_TOKEN, GEMINI_API_KEY, DEBUG_MODE>>
locals == <<target_url, params, headers, body, response, content_type,
            stream_response_obj>>
vars == <<APP_TOKEN, GEMINI_API_KEY, DEBUG_MODE, request, pc, target_url, params,
          headers, body, response, content_type, stream_response_obj,
          client_open, outbound, reply, failure, log>>

\* ------------------------------------------------------ framework (inbound)
\* request.headers: the server hands header names over in lower case
RequestHeaders(raw) == [i \in 1..Len(raw) |-> <<lower(raw[i][1]), raw[i][2]>>]

\* Headers.get(key): the first value under that name, names compared
\* case-insensitively; None when there is none
HeadersGet(hs, key) ==
    IF \E i \in 1..Len(hs) : hs[i][1] = lower(key)
    THEN LET first == CHOOSE i \in 1..Len(hs) :
                         /\ hs[i][1] = lower(key)
                         /\ \A j \in 1..(i - 1) : hs[j][1] # lower(key)
         IN  Some(hs[first][2])
    ELSE None

\* the two routes of the application: lines 75 and 81
HealthRoute == "/health"
ProxyRoute == "/v1beta/{path:path}"

\* str(request.url)
RECURSIVE QueryString(_)
QueryString(qp) ==
    IF qp = <<>> THEN <<>>
    ELSE <<Head(qp)[1], "=">> \o Head(qp)[2]
         \o (IF Tail(qp) = <<>> THEN <<>> ELSE <<"&">> \o QueryString(Tail(qp)))

RequestUrl(req) ==
    <<"http://">> \o req.host
    \o (IF req.route = HealthRoute THEN <<"/health">> ELSE <<"/v1beta/">> \o req.path)
    \o (IF req.query_params = <<>> THEN <<>>
        ELSE <<"?">> \o QueryString(req.query_params))

\* bytes.decode("utf-8", errors="replace") and Response.text
DecodeAtom(a) == IF a = "\\xff" THEN "\\ufffd" ELSE a
Decode(bytes) == [i \in 1..Len(bytes) |-> DecodeAtom(bytes[i])]

\* json.loads followed by json.dumps(indent=2): one document, re-indented;
\* anything else raises
JsonDocs == {"{\"a\":1}"}
JsonLoadable(text) == Len(text) = 1 /\ text[1] \in JsonDocs
JsonDumps(text) == <<"{\n  \"a\": 1\n}">>

\* ---------------------------------------------------------- truncate_string
truncate_string(s, max_length) ==
    IF Len(s) <= max_length THEN s
    ELSE SubSeq(s, 1, max_length) \o <<"... [truncated, total ", ToString(Len(s)), " chars]">>

\* -------------------------------------------------------------- verify_token
\* verify_token as it would be with startswith in place of the comparison
verify_token_startswith(req) ==
    IF ~Truthy(APP_TOKEN) THEN TRUE
    ELSE LET token == HeadersGet(RequestHeaders(req.raw_headers), "X-App-Token")
         IN  /\ token.some
             /\ Len(token.v) >= Len(APP_TOKEN.v)
             /\ SubSeq(token.v, 1, Len(APP_TOKEN.v)) = APP_TOKEN.v

\* verify_token as it would be without the early return of open mode
verify_token_always(req) ==
    HeadersGet(RequestHeaders(req.raw_headers), "X-App-Token") = APP_TOKEN

\* verify_token as it would be if it never raised
verify_token_never(req) == TRUE

\* TRUE when verify_token returns, FALSE when it raises the 401
verify_token(req) ==
    IF ~Truthy(APP_TOKEN) THEN TRUE
    ELSE HeadersGet(RequestHeaders(req.raw_headers), "X-App-Token") = APP_TOKEN

verify_token_log(req) ==
    IF ~Truthy(APP_TOKEN)
    THEN << [level |-> "WARNING", text |-> <<"APP_TOKEN not set, skipping authentication">>] >>
    ELSE IF ~verify_token(req)
    THEN << [level |-> "WARNING",
             text |-> <<"Invalid token attempt from ">> \o req.client_host] >>
    ELSE <<>>

\* ---------------------------------------------------- HTTPException replies
\* reply.state: "none" nothing sent yet, "open" status and headers sent and the
\* body still being sent, "complete", "aborted" the body broke off
NoReply == [kind |-> "none", status_code |-> 0, headers |-> <<>>,
            media_type |-> <<>>, chunks |-> <<>>, state |-> "none"]

HTTPException(status_code, detail) ==
    [kind |-> "HTTPException", status_code |-> status_code, headers |-> <<>>,
     media_type |-> <<"application/json">>,
     chunks |-> << <<"{\"detail\":\"">> \o detail \o <<"\"}">> >>,
     state |-> "complete"]

\* an exception no handler catches: the framework's 500
ServerError ==
    [kind |-> "ServerError", status_code |-> 500, headers |-> <<>>,
     media_type |-> <<"text/plain">>, chunks |-> << <<"Internal Server Error">> >>,
     state |-> "complete"]

\* ------------------------------------------------------- Request Translator
Line(level, text) == [level |-> level, text |-> text]

\* lines 89-95
IncomingLog(req) ==
    << Line("INFO", <<"====">>),
       Line("INFO", <<"[rid] Incoming Request">>),
       Line("INFO", <<"[rid] Method: ", req.method>>),
       Line("INFO", <<"[rid] Path: /v1beta/">> \o req.path),
       Line("INFO", <<"[rid] Client: ">> \o req.client_host) >>

\* the target URL as it would be with the key written into it
TargetUrlWithKey(req) ==
    GOOGLE_API_BASE \o <<"/v1beta/">> \o req.path \o <<"?key=">> \o GEMINI_API_KEY.v

TargetUrl(req) == GOOGLE_API_BASE \o <<"/v1beta/">> \o req.path

\* the parameters as they would be with the key appended, not set
BuildParamsAppend(req) ==
    Append(DictFromPairs(req.query_params), <<"key", GEMINI_API_KEY.v>>)

\* params = dict(request.query_params); params["key"] = GEMINI_API_KEY
BuildParams(req) == DictSet(DictFromPairs(req.query_params), "key", GEMINI_API_KEY.v)

\* the hop-by-hop names alone, without the inbound token header
excluded_headers_hop_by_hop == {"host", "content-length", "transfer-encoding", "connection"}

excluded_headers == {"host", "content-length", "transfer-encoding", "connection",
                     "x-app-token"}

NotExcludedHeader(h) == lower(h[1]) \notin excluded_headers

BuildHeaders(req) ==
    DictFromPairs(SelectSeq(RequestHeaders(req.raw_headers), NotExcludedHeader))

\* the body as it would be if what the preview made of it were forwarded
ReadBodyPreviewed(req) ==
    IF DEBUG_MODE /\ req.body # <<>>
    THEN IF JsonLoadable(req.body) THEN JsonDumps(req.body) ELSE Decode(req.body)
    ELSE req.body

\* body = await request.body(): line 124
ReadBody(req) == req.body

\* the debug preview of the request body, lines 126-132
BodyPreviewLog(b) ==
    IF DEBUG_MODE /\ b # <<>>
    THEN IF JsonLoadable(b)
         THEN << Line("INFO", <<"[rid] Request Body Preview:\n">>
                              \o truncate_string(JsonDumps(b), 2000)) >>
         ELSE << Line("INFO", <<"[rid] Request Body (raw): ">>
                              \o truncate_string(Decode(b), 500)) >>
    ELSE <<>>

OutboundRequest(req, stream) ==
    [method |-> req.method, url |-> target_url, params |-> params,
     headers |-> headers, content |-> body, stream |-> stream]

\* ------------------------------------------------------ framework (upstream)
NoResponse == [status_code |-> 0, headers |-> <<>>, chunks |-> <<>>]

\* httpx Headers.items(): names in lower case, the values of a repeated name
\* joined by ", "
RECURSIVE ResponseItemsAcc(_, _)
ResponseItemsAcc(d, hs) ==
    IF hs = <<>> THEN d
    ELSE LET k == lower(Head(hs)[1])
             v == Head(hs)[2]
         IN  ResponseItemsAcc(
                 IF k \in Keys(d) THEN DictSet(d, k, DictGet(d, k) \o <<", ">> \o v)
                 ELSE Append(d, <<k, v>>),
                 Tail(hs))

ResponseItems(hs) == ResponseItemsAcc(<<>>, hs)

\* response.headers.get(key, default)
ResponseHeaderGet(hs, key, default) ==
    IF lower(key) \in Keys(ResponseItems(hs))
    THEN DictGet(ResponseItems(hs), lower(key)) ELSE default

\* response.content and response.text
Content(resp) == Flatten(resp.chunks)
Text(resp) == Decode(Content(resp))

\* --------------------------------------------------------- Response Relay
framing_headers == {"content-encoding", "content-length", "transfer-encoding"}

\* the filter as it would be with transfer-encoding left out of the set
NotFramingHeaderShort(h) == lower(h[1]) \notin {"content-encoding", "content-length"}

NotFramingHeader(h) == lower(h[1]) \notin framing_headers

RelayedHeaders(resp) == SelectSeq(ResponseItems(resp.headers), NotFramingHeader)

\* lines 147-164
ResponseLog(resp) ==
    << Line("INFO", <<"[rid] Response Status: ", ToString(resp.status_code)>>) >>
    \o (IF resp.status_code >= 400
        THEN << Line("ERROR", <<"[rid] Error Response (Status ", ToString(resp.status_code), "):">>),
                IF JsonLoadable(Text(resp))
                THEN Line("ERROR", <<"[rid] Error Details:\n">> \o JsonDumps(Text(resp)))
                ELSE Line("ERROR", <<"[rid] Raw Error:\n">> \o Text(resp)) >>
        ELSE IF DEBUG_MODE
        THEN << Line("INFO", <<"[rid] Response Preview:\n">>
                             \o truncate_string(Text(resp), 1000)) >>
        ELSE <<>>)

\* line 167
IsStreaming(ct, req) ==
    Contains(ct, <<"text/event-stream">>) \/ Contains(RequestUrl(req), <<"stream">>)

\* lines 190-198
BufferedResponse(resp, ct) ==
    [kind |-> "Response", status_code |-> resp.status_code,
     headers |-> RelayedHeaders(resp), media_type |-> ct,
     chunks |-> << Content(resp) >>, state |-> "complete"]

\* lines 178-186
StreamingResponse(resp, ct) ==
    [kind |-> "StreamingResponse", status_code |-> resp.status_code,
     headers |-> RelayedHeaders(resp), media_type |-> ct,
     chunks |-> <<>>, state |-> "open"]

\* ------------------------------------------------------------------ inputs
\* The inputs are explored one dimension at a time: a request varies in its
\* headers, or in its query string, or in its body, and the upstream varies
\* its answer widely only for the plainest request.
TOKEN == <<"t", "k">>
KEY == <<"AIzaKEY">>

AppTokens == {None, Some(<<>>), Some(TOKEN)}
ApiKeys == {None, Some(<<>>), Some(KEY)}

Methods == {"GET", "POST", "PUT", "DELETE", "PATCH"}
PathPlain == <<"models/m:", "generateContent">>
PathStream == <<"models/m:", "stream", "GenerateContent">>
Paths == {PathPlain, PathStream}

\* what a client may put in X-App-Token: the token, another case, a prefix,
\* an extension, nothing
TokenValues == {TOKEN, <<"T", "k">>, <<"t">>, <<"t", "k", "k">>, <<>>}
HeaderLines ==
    ({"X-App-Token", "x-app-token"} \X TokenValues)
    \cup { <<"Host", <<"proxy.local">>>>, <<"Content-Length", <<"7">>>>,
           <<"transfer-encoding", <<"chunked">>>>, <<"Connection", <<"close">>>>,
           <<"Accept", <<"*/*">>>>, <<"accept", <<"text/event-stream">>>> }

ParamLines == {"key", "alt"} \X {<<"c1">>, <<"stream">>}

Bodies == {<<>>, <<"{\"a\":1}">>, <<"{\"a\"">>, <<"\\xff">>}

Req(m, p, q, h, b) ==
    [route |-> ProxyRoute, method |-> m, host |-> <<"proxy.local">>, path |-> p,
     query_params |-> q, raw_headers |-> h, body |-> b, client_host |-> <<"10.0.0.9">>]

\* a call of the liveness endpoint
HealthReq(h) ==
    [route |-> HealthRoute, method |-> "GET", host |-> <<"proxy.local">>, path |-> <<>>,
     query_params |-> <<>>, raw_headers |-> h, body |-> <<>>,
     client_host |-> <<"10.0.0.9">>]

HealthRequests == {HealthReq(h) : h \in SeqsUpTo(HeaderLines, 1)}

PlainRequests == {Req(m, p, <<>>, <<>>, <<>>) : m \in Methods, p \in Paths}

Inputs ==
    \* every configuration, on the plainest requests
    ((AppTokens \X ApiKeys \X BOOLEAN) \X PlainRequests)
    \* the headers vary
    \cup ((AppTokens \X {None, Some(KEY)} \X {TRUE})
          \X {Req("GET", PathPlain, <<>>, h, <<>>) :
                 h \in SeqsUpTo(HeaderLines, MaxHeaders)})
    \* the query string varies
    \cup (({None} \X {Some(KEY)} \X {TRUE})
          \X {Req("GET", p, q, <<>>, <<>>) :
                 p \in Paths, q \in SeqsUpTo(ParamLines, MaxParams)})
    \* the body varies
    \cup (({None, Some(TOKEN)} \X {None, Some(KEY)} \X BOOLEAN)
          \X {Req("POST", p, <<>>, <<>>, b) : p \in Paths, b \in Bodies})
    \* the liveness endpoint, in every configuration
    \cup ((AppTokens \X ApiKeys \X BOOLEAN) \X HealthRequests)

\* the upstream receives the key with the call and may send it back
EchoKey == IF "key" \in Keys(params) THEN DictGet(params, "key") ELSE <<>>

StatusCodes == {200, 401, 500}
JsonHeader == <<"Content-Type", <<"application/json">>>>
RespHeaderLines ==
    { JsonHeader, <<"content-type", <<"text/event-stream">>>>,
      <<"Content-Length", <<"5">>>>, <<"Content-Encoding", <<"gzip">>>>,
      <<"transfer-encoding", <<"chunked">>>>, <<"X-Goog-Trace", <<"v1">>>> }

Resp(st, hs, cs) == [status_code |-> st, headers |-> hs, chunks |-> cs]

DefaultResponse == Resp(200, <<JsonHeader>>, << <<"a">>, <<"b">> >>)

BasicResponses == {DefaultResponse, Resp(500, <<>>, << <<"a">> >>)}

\* key: what the upstream can echo
RichResponses(key) ==
    {Resp(st, hs, << <<"a">>, <<"b">> >>) :
        st \in StatusCodes, hs \in SeqsUpTo(RespHeaderLines, MaxRespHeaders)}
    \cup {Resp(st, <<JsonHeader>>, cs) :
        st \in StatusCodes,
        cs \in SeqsUpTo({<<"a">>, <<"{\"a\":1}">>, <<"\\xff">>, <<"key=">> \o key},
                        MaxChunks)}

\* the answers explored for the next call to the upstream
UpstreamResponses ==
    IF /\ request \in PlainRequests
       /\ request.method = "GET"
       /\ ~Truthy(APP_TOKEN)
       /\ response \in {NoResponse, DefaultResponse}
    THEN RichResponses(EchoKey) \cup BasicResponses
    ELSE BasicResponses

\* str(e) of a transport error
Causes == {<<"[Errno -2] Name or service not known">>, <<"Connection reset by peer">>}

\* failure.at: the call that met it ("request" client.request, "stream"
\* client.stream, "read" a read of the streamed body)
NoFailure == [at |-> "none", kind |-> "none"]

\* -------------------------------------------------------------------- Init
Init ==
    /\ \E in \in Inputs :
          /\ APP_TOKEN = in[1][1]
          /\ GEMINI_API_KEY = in[1][2]
          /\ DEBUG_MODE = in[1][3]
          /\ request = in[2]
    /\ pc = "start"
    /\ target_url = <<>>
    /\ params = <<>>
    /\ headers = <<>>
    /\ body = <<>>
    /\ response = NoResponse
    /\ content_type = <<>>
    /\ stream_response_obj = NoResponse
    /\ client_open = FALSE
    /\ outbound = <<>>
    /\ reply = NoReply
    /\ failure = NoFailure
    /\ log = <<>>

\* ------------------------------------------------------- proxy_gemini_api
\* verify_token raises: lines 89-98, 63-66
Unauthorized ==
    /\ pc = "start"
    /\ request.route = ProxyRoute
    /\ ~verify_token(request)
    /\ log' = log \o IncomingLog(request) \o verify_token_log(request)
    /\ reply' = HTTPException(401, <<"Unauthorized: Invalid or missing token">>)
    /\ pc' = "done"
    /\ UNCHANGED <<config, request, failure, locals, client_open, outbound>>

\* the configuration check as it would be if made before the token check
NotConfiguredFirst ==
    /\ pc = "start"
    /\ request.route = ProxyRoute
    /\ ~Truthy(GEMINI_API_KEY)
    /\ log' = log \o IncomingLog(request)
              \o << Line("ERROR", <<"[rid] GEMINI_API_KEY not configured!">>) >>
    /\ reply' = HTTPException(500, <<"Server configuration error: GEMINI_API_KEY not set">>)
    /\ pc' = "done"
    /\ UNCHANGED <<config, request, failure, locals, client_open, outbound>>

\* the key is not configured: lines 89-106
NotConfigured ==
    /\ pc = "start"
    /\ request.route = ProxyRoute
    /\ verify_token(request)
    /\ ~Truthy(GEMINI_API_KEY)
    /\ log' = log \o IncomingLog(request) \o verify_token_log(request)
              \o << Line("ERROR", <<"[rid] GEMINI_API_KEY not configured!">>) >>
    /\ reply' = HTTPException(500, <<"Server configuration error: GEMINI_API_KEY not set">>)
    /\ pc' = "done"
    /\ UNCHANGED <<config, request, failure, locals, client_open, outbound>>

\* the outbound request is built and the client opened: lines 89-137
Translate ==
    /\ pc = "start"
    /\ request.route = ProxyRoute
    /\ verify_token(request)
    /\ Truthy(GEMINI_API_KEY)
    /\ target_url' = TargetUrl(request)
    /\ params' = BuildParams(request)
    /\ headers' = BuildHeaders(request)
    /\ body' = ReadBody(request)
    /\ client_open' = TRUE
    /\ log' = log \o IncomingLog(request) \o verify_token_log(request)
              \o << Line("INFO", <<"[rid] Target URL: ">> \o TargetUrl(request)) >>
              \o BodyPreviewLog(ReadBody(request))
              \o << Line("INFO", <<"[rid] Forwarding to Google API...">>) >>
    /\ pc' = "request"
    /\ UNCHANGED <<config, request, failure, response, content_type, stream_response_obj,
                   outbound, reply>>

\* client.request returns and the answer is relayed whole: lines 139-164, 188-198
RequestBuffered ==
    /\ pc = "request"
    /\ \E r \in UpstreamResponses :
          LET ct == ResponseHeaderGet(r.headers, "content-type", <<>>)
          IN  /\ ~IsStreaming(ct, request)
              /\ response' = r
              /\ content_type' = ct
              /\ log' = log \o ResponseLog(r)
                        \o << Line("INFO", <<"[rid] Request completed successfully">>) >>
              /\ reply' = BufferedResponse(r, ct)
    /\ outbound' = Append(outbound, OutboundRequest(request, FALSE))
    /\ client_open' = FALSE
    /\ pc' = "done"
    /\ UNCHANGED <<config, request, failure, target_url, params, headers, body,
                   stream_response_obj>>

\* client.request returns and streaming is detected: lines 139-168
RequestStreaming ==
    /\ pc = "request"
    /\ \E r \in UpstreamResponses :
          LET ct == ResponseHeaderGet(r.headers, "content-type", <<>>)
          IN  /\ IsStreaming(ct, request)
              /\ response' = r
              /\ content_type' = ct
              /\ log' = log \o ResponseLog(r)
                        \o << Line("INFO", <<"[rid] Streaming response detected">>) >>
    /\ outbound' = Append(outbound, OutboundRequest(request, FALSE))
    /\ pc' = "stream"
    /\ UNCHANGED <<config, request, failure, target_url, params, headers, body,
                   stream_response_obj, client_open, reply>>

\* the timeout as it would be handled if the RequestError clause, which also
\* matches a TimeoutException, came first
TimeoutAsRequestError(stream) ==
    /\ outbound' = Append(outbound, OutboundRequest(request, stream))
    /\ log' = log \o << Line("ERROR", <<"[rid] Request error: ", "timed out">>) >>
    /\ reply' = HTTPException(502, <<"Bad gateway: ", "timed out">>)
    /\ client_open' = FALSE
    /\ pc' = "done"
    /\ failure' = [at |-> IF stream THEN "stream" ELSE "request", kind |-> "timeout"]
    /\ UNCHANGED <<config, request, locals>>

\* httpx.TimeoutException: lines 200-202
Timeout(stream) ==
    /\ outbound' = Append(outbound, OutboundRequest(request, stream))
    /\ log' = log \o << Line("ERROR", <<"[rid] Timeout error!">>) >>
    /\ reply' = HTTPException(504, <<"Gateway timeout: Gemini API did not respond in time">>)
    /\ client_open' = FALSE
    /\ pc' = "done"
    /\ failure' = [at |-> IF stream THEN "stream" ELSE "request", kind |-> "timeout"]
    /\ UNCHANGED <<config, request, locals>>

\* the transport error as it would end with no clause catching it
TransportErrorUncaught(stream) ==
    /\ reply' = ServerError
    /\ outbound' = Append(outbound, OutboundRequest(request, stream))
    /\ client_open' = FALSE
    /\ pc' = "done"
    /\ failure' = [at |-> IF stream THEN "stream" ELSE "request", kind |-> "error"]
    /\ UNCHANGED <<config, request, locals, log>>

\* any other httpx.RequestError: lines 203-205
TransportError(stream) ==
    /\ \E cause \in Causes :
          /\ log' = log \o << Line("ERROR", <<"[rid] Request error: ">> \o cause) >>
          /\ reply' = HTTPException(502, <<"Bad gateway: ">> \o cause)
    /\ outbound' = Append(outbound, OutboundRequest(request, stream))
    /\ client_open' = FALSE
    /\ pc' = "done"
    /\ failure' = [at |-> IF stream THEN "stream" ELSE "request", kind |-> "error"]
    /\ UNCHANGED <<config, request, locals>>

RequestTimeout == pc = "request" /\ Timeout(FALSE)

RequestError == pc = "request" /\ TransportError(FALSE)

\* "await client.stream(...)", lines 170-176.  The code takes client.stream
\* to be a coroutine that sends the request again and returns the response
\* with its body unread (StreamOpened, StreamTimeout, StreamError).  Where the
\* HTTP client library declares it as a context manager, the value cannot be
\* awaited: a TypeError is raised before anything is sent, nothing in the
\* handler catches it, and the framework answers 500 (StreamNotAwaitable).
StreamNotAwaitable ==
    /\ pc = "stream"
    /\ reply' = ServerError
    /\ client_open' = FALSE
    /\ pc' = "done"
    /\ UNCHANGED <<config, request, failure, locals, outbound, log>>

\* the StreamingResponse is returned, which leaves the "async with" block and
\* closes the client before the body is iterated: lines 170-186
StreamOpened ==
    /\ pc = "stream"
    /\ \E r \in UpstreamResponses :
          /\ stream_response_obj' = r
          /\ reply' = StreamingResponse(r, content_type)
    /\ outbound' = Append(outbound, OutboundRequest(request, TRUE))
    /\ client_open' = FALSE
    /\ pc' = "relay"
    /\ UNCHANGED <<config, request, failure, target_url, params, headers, body, response,
                   content_type, log>>

StreamTimeout == pc = "stream" /\ Timeout(TRUE)

StreamError == pc = "stream" /\ TransportError(TRUE)

\* The framework iterates stream_response_obj.aiter_bytes() after the handler
\* has returned.  The client that owns the connection is closed by then, so
\* what a read yields is not determined by the code: a chunk that had already
\* arrived, the end of the body, or an exception; an exception here is
\* outside the handler's try block and breaks the response off.
RelayChunk ==
    /\ pc = "relay"
    /\ Len(reply.chunks) < Len(stream_response_obj.chunks)
    /\ reply' = [reply EXCEPT !.chunks =
                    Append(@, stream_response_obj.chunks[Len(reply.chunks) + 1])]
    /\ UNCHANGED <<config, request, failure, pc, locals, client_open, outbound, log>>

RelayEnd ==
    /\ pc = "relay"
    /\ Len(reply.chunks) = Len(stream_response_obj.chunks)
    /\ reply' = [reply EXCEPT !.state = "complete"]
    /\ pc' = "done"
    /\ UNCHANGED <<config, request, failure, locals, client_open, outbound, log>>

\* why a read of the upstream body failed: the upstream stalled, the
\* connection broke, or the handler had closed the client under the stream
ReadFailures == {"timeout", "error", "closed"}

RelayFail ==
    /\ pc = "relay"
    /\ \E why \in ReadFailures : failure' = [at |-> "read", kind |-> why]
    /\ reply' = [reply EXCEPT !.state = "aborted"]
    /\ pc' = "done"
    /\ UNCHANGED <<config, request, locals, client_open, outbound, log>>

\* the body FastAPI sends for the dict health_check returns: lines 75-78
HealthPayload ==
    [kind |-> "JSONResponse", status_code |-> 200, headers |-> <<>>,
     media_type |-> <<"application/json">>,
     chunks |-> << <<"{\"status\":\"ok\",\"service\":\"gemini-proxy\"}">> >>,
     state |-> "complete"]

\* the liveness endpoint as it would be behind the token check
HealthCheckVerified ==
    /\ pc = "start"
    /\ request.route = HealthRoute
    /\ reply' = IF verify_token(request) THEN HealthPayload
              ELSE HTTPException(401, <<"Unauthorized: Invalid or missing token">>)
    /\ pc' = "done"
    /\ UNCHANGED <<config, request, failure, locals, client_open, outbound, log>>

\* GET /health: lines 75-78
HealthCheck ==
    /\ pc = "start"
    /\ request.route = HealthRoute
    /\ reply' = HealthPayload
    /\ pc' = "done"
    /\ UNCHANGED <<config, request, failure, locals, client_open, outbound, log>>

Next ==
    \/ HealthCheck
    \/ Unauthorized
    \/ NotConfigured
    \/ Translate
    \/ RequestBuffered
    \/ RequestStreaming
    \/ RequestTimeout
    \/ RequestError
    \/ StreamNotAwaitable
    \/ StreamOpened
    \/ StreamTimeout
    \/ StreamError
    \/ RelayChunk
    \/ RelayEnd
    \/ RelayFail

Spec == Init /\ [][Next]_vars

\* =================================================================== claims
\* the X-App-Token header as the client sent it: the first header line with
\* that name, whatever its letter case
\* the request is one to the proxy route, not to the liveness endpoint
Proxied == request.route = ProxyRoute

TokenLines == {i \in 1..Len(request.raw_headers) :
                  lower(request.raw_headers[i][1]) = "x-app-token"}

ExactTokenSupplied ==
    /\ TokenLines # {}
    /\ LET first == CHOOSE i \in TokenLines : \A j \in TokenLines : i <= j
       IN  request.raw_headers[first][2] = APP_TOKEN.v

Answered401 == reply.kind = "HTTPException" /\ reply.status_code = 401

\* C1: with an inbound token configured, a proxied request that has been through the
\* token check is answered 401 exactly when its X-App-Token value is not the
\* configured token, compared whole and case-sensitively.
C1_ExactTokenMatch ==
    (Proxied /\ Truthy(APP_TOKEN) /\ pc # "start") => (Answered401 <=> ~ExactTokenSupplied)

\* a token that differs from the configured one only in letter case, or is a
\* proper extension of it, has been refused
C1_Witness ==
    /\ Truthy(APP_TOKEN)
    /\ Answered401
    /\ \E i \in TokenLines :
          request.raw_headers[i][2] \in {<<"T", "k">>, <<"t", "k", "k">>}

\* C2: with no inbound token configured (unset or empty), no request is
\* answered with the authenticator's 401, whatever headers it carries.
C2_OpenMode ==
    ~Truthy(APP_TOKEN) =>
        /\ ~Answered401
        /\ \A i \in 1..Len(log) : log[i].text[1] # "Invalid token attempt from "

\* in open mode a request carrying some X-App-Token value has passed the check
C2_Witness ==
    /\ ~Truthy(APP_TOKEN)
    /\ TokenLines # {}
    /\ pc \in {"request", "done"}
    /\ Len(outbound) >= 1

KeyLines(ps) == {j \in 1..Len(ps) : ps[j][1] = "key"}

\* C3: every call made to the upstream carries the parameter "key" exactly
\* once, with the configured GEMINI_API_KEY as its value, so no value the
\* client gave for "key" is sent.
C3_KeyExactlyOnce ==
    \A i \in 1..Len(outbound) :
        /\ Cardinality(KeyLines(outbound[i].params)) = 1
        /\ \A j \in KeyLines(outbound[i].params) :
              outbound[i].params[j][2] = GEMINI_API_KEY.v
        /\ ~Contains(outbound[i].url, <<"key">>)

\* a request that gave "key" twice has been forwarded
C3_Witness ==
    /\ request.query_params = << <<"key", <<"c1">>>>, <<"key", <<"stream">>>> >>
    /\ Len(outbound) = 2

\* the request is let through by the token check and the key is configured
PassesChecks == (~Truthy(APP_TOKEN) \/ ExactTokenSupplied) /\ Truthy(GEMINI_API_KEY)

\* C4: a proxied request that passes the token and configuration checks has caused
\* exactly one call to the upstream by the time the handler has returned.
C4_ExactlyOneCall ==
    (Proxied /\ PassesChecks /\ pc \in {"relay", "done"}) => Len(outbound) = 1

KeyIn(text) == Truthy(GEMINI_API_KEY) /\ Contains(text, GEMINI_API_KEY.v)

ReplyHasKey ==
    \/ KeyIn(Flatten(reply.chunks))
    \/ KeyIn(reply.media_type)
    \/ \E i \in 1..Len(reply.headers) : KeyIn(reply.headers[i][2])

LogHasKey == \E i \in 1..Len(log) : KeyIn(log[i].text)

UpstreamHasKey(r) ==
    \/ KeyIn(Content(r))
    \/ \E i \in 1..Len(r.headers) : KeyIn(r.headers[i][2])

\* the upstream response whose status, headers and body are handed to the client
Relayed == IF stream_response_obj # NoResponse THEN stream_response_obj ELSE response

C6_NoDispatchOnAuthOrConfigError ==
    (Proxied /\ ~PassesChecks) =>
        /\ outbound = <<>>
        /\ ~client_open
        /\ body = <<>>
        /\ pc \in {"start", "done"}
        /\ pc = "done" =>
              /\ reply.kind = "HTTPException"
              /\ reply.status_code \in {401, 500}

\* a request with a body has been refused with 401 and nothing was sent
C6_Witness ==
    /\ request.body # <<>>
    /\ Answered401
    /\ outbound = <<>>

\* C7: once the handler is through and the upstream has answered every call
\* made to it without a timeout or a transport failure, the client holds the
\* status and the body bytes of the relayed upstream response.
C7_ExactRelay ==
    (pc = "done" /\ Relayed # NoResponse /\ failure.kind \in {"none", "closed"}) =>
        /\ reply.status_code = Relayed.status_code
        /\ Flatten(reply.chunks) = Content(Relayed)

TimeoutReply ==
    HTTPException(504, <<"Gateway timeout: Gemini API did not respond in time">>)

\* C8 as stated: wherever the timeout strikes, the client holds the 504 and
\* nothing of an upstream body.
C8_TimeoutAlways504 == (failure.kind = "timeout") => reply = TimeoutReply

\* C8: a timeout of client.request or of the call that opens the stream ends
\* in the 504, with nothing of an upstream body sent to the client.
C8_CallTimeout504 ==
    (failure.kind = "timeout" /\ failure.at \in {"request", "stream"}) =>
        reply = TimeoutReply

\* the call that opens the stream timed out after a first answer with a body
C8_Witness ==
    /\ failure = [at |-> "stream", kind |-> "timeout"]
    /\ Content(response) # <<>>
    /\ reply.status_code = 504

\* C9: a transport failure of client.request or client.stream that is not a
\* timeout ends in the 502 carrying its cause.
C9_TransportError502 ==
    (failure.kind = "error" /\ failure.at \in {"request", "stream"}) =>
        \E cause \in Causes : reply = HTTPException(502, <<"Bad gateway: ">> \o cause)

\* the call failed after an upstream answer with another status was at hand
C9_Witness ==
    /\ failure = [at |-> "stream", kind |-> "error"]
    /\ response.status_code = 500
    /\ reply.status_code = 502

\* C10: the headers of a relayed response hold no content-encoding,
\* content-length or transfer-encoding, and hold every other header of the
\* upstream response (by its lower-case name, with its value).
C10_FramingHeadersDropped ==
    reply.kind \in {"Response", "StreamingResponse"} =>
        /\ \A j \in 1..Len(reply.headers) :
              lower(reply.headers[j][1]) \notin
                 {"content-encoding", "content-length", "transfer-encoding"}
        /\ \A i \in 1..Len(Relayed.headers) :
              lower(Relayed.headers[i][1]) \notin
                 {"content-encoding", "content-length", "transfer-encoding"}
              => \E j \in 1..Len(reply.headers) :
                    /\ reply.headers[j][1] = lower(Relayed.headers[i][1])
                    /\ Contains(reply.headers[j][2], Relayed.headers[i][2])

\* a streamed response whose upstream headers held a framing header and
\* another one
C10_Witness ==
    /\ reply.kind = "StreamingResponse"
    /\ \E i \in 1..Len(stream_response_obj.headers) :
          lower(stream_response_obj.headers[i][1]) = "transfer-encoding"
    /\ reply.headers = << <<"x-goog-trace", <<"v1">>>> >>

\* the handler has taken the streaming branch (line 167) for this request
StreamingSelected == response # NoResponse /\ IsStreaming(content_type, request)

\* C11: when a request served in streaming mode is through and the upstream
\* answered every call without a timeout or a transport failure, the client
\* holds exactly the chunks of the relayed upstream response, in their order.
C11_ChunksExact ==
    (StreamingSelected /\ pc = "done" /\ failure.kind \in {"none", "closed"}) =>
        reply.chunks = Relayed.chunks


\* the calls of this request whose complete answer the handler has awaited:
\* client.request returns only when the whole body has been read
BodiesAwaited ==
    IF response = NoResponse THEN {}
    ELSE {i \in 1..Len(outbound) : ~outbound[i].stream}

\* C12: in streaming mode the gateway has not waited for any complete
\* upstream body by the time the client holds its first relayed chunk.
C12_NoCompleteBodyAwaited ==
    (reply.kind = "StreamingResponse" /\ Len(reply.chunks) >= 1) =>
        BodiesAwaited = {}


\* the names the claim says are never forwarded
NeverForwarded == {"host", "content-length", "transfer-encoding", "connection",
                   "x-app-token"}

\* the inbound header lines whose name the claim says are forwarded
ForwardableLines ==
    {j \in 1..Len(request.raw_headers) :
        lower(request.raw_headers[j][1]) \notin NeverForwarded}

\* the last inbound line carrying the same name as line j, case-insensitively
LastLineNamed(j) ==
    CHOOSE l \in 1..Len(request.raw_headers) :
        /\ lower(request.raw_headers[l][1]) = lower(request.raw_headers[j][1])
        /\ \A m \in (l + 1)..Len(request.raw_headers) :
               lower(request.raw_headers[m][1]) # lower(request.raw_headers[j][1])

\* C13: every call made to the upstream carries each inbound header name
\* outside the exclusion set (lower-cased, with the value of the client's
\* last line of that name), carries nothing else, and never carries host,
\* content-length, transfer-encoding, connection or x-app-token, whatever
\* letter case the client used for the name.
C13_HeadersFiltered ==
    \A i \in 1..Len(outbound) :
        LET sent == outbound[i].headers IN
        /\ \A j \in ForwardableLines :
               \E k \in 1..Len(sent) :
                   /\ sent[k][1] = lower(request.raw_headers[j][1])
                   /\ sent[k][2] = request.raw_headers[LastLineNamed(j)][2]
        /\ \A k \in 1..Len(sent) :
               /\ lower(sent[k][1]) \notin NeverForwarded
               /\ \E j \in ForwardableLines :
                      sent[k][1] = lower(request.raw_headers[j][1])
               /\ \A m \in 1..Len(sent) : sent[m][1] = sent[k][1] => m = k

C13_Witness ==
    /\ APP_TOKEN = Some(TOKEN)
    /\ request.raw_headers = << <<"X-App-Token", TOKEN>>, <<"Accept", <<"*/*">>>> >>
    /\ Len(outbound) >= 1
    /\ outbound[1].headers = << <<"accept", <<"*/*">>>> >>


\* how many lines of the parameter list ps are the pair <<name, value>>
CountParam(ps, name, value) ==
    Cardinality({j \in 1..Len(ps) : ps[j] = <<name, value>>})

\* C14: every call made to the upstream carries each inbound query parameter
\* pair whose name is not "key" as often as the client sent it, so every
\* value of a repeated name is forwarded.
C14_AllParamValuesForwarded ==
    \A i \in 1..Len(outbound) :
        \A j \in 1..Len(request.query_params) :
            LET p == request.query_params[j] IN
            p[1] # "key" =>
                CountParam(outbound[i].params, p[1], p[2])
                    = CountParam(request.query_params, p[1], p[2])


\* C15: a call of /health is answered 200 with the fixed payload
\* {"status":"ok","service":"gemini-proxy"} whatever APP_TOKEN, GEMINI_API_KEY
\* and the caller's headers are, and causes no call to the upstream.
C15_HealthFixedPayload ==
    request.route = HealthRoute =>
        /\ outbound = <<>>
        /\ ~client_open
        /\ pc \in {"start", "done"}
        /\ pc = "done" =>
              /\ reply.status_code = 200
              /\ reply.chunks = << <<"{\"status\":\"ok\",\"service\":\"gemini-proxy\"}">> >>
              /\ reply.state = "complete"

\* /health has answered a caller with a wrong token while a token is
\* configured and the key is not
C15_Witness ==
    /\ request.route = HealthRoute
    /\ Truthy(APP_TOKEN)
    /\ TokenLines # {}
    /\ ~ExactTokenSupplied
    /\ ~Truthy(GEMINI_API_KEY)
    /\ pc = "done"
    /\ reply.status_code = 200


\* the request has been served in buffered mode
BufferedSelected == response # NoResponse /\ reply.kind = "Response"

\* C16: once the upstream has answered the first call, the request is served
\* in buffered mode unless the answer's content type holds text/event-stream
\* or the requested path holds the marker "stream"; the query string and the
\* host play no part.
C16_ModeByPathOrContentType ==
    (response # NoResponse /\ ~Contains(content_type, <<"text/event-stream">>)
                           /\ ~Contains(request.path, <<"stream">>))
        => BufferedSelected


\* the responses the claim allows the gateway to make up itself
GatewayReplies ==
    { HTTPException(401, <<"Unauthorized: Invalid or missing token">>),
      HTTPException(500, <<"Server configuration error: GEMINI_API_KEY not set">>),
      TimeoutReply }
    \cup { HTTPException(502, <<"Bad gateway: ">> \o cause) : cause \in Causes }

\* C17: a proxied request that is through has got one complete response:
\* the 401 of a failed token check, the 500 of the missing key, the 504 of a
\* timeout, the 502 of a transport error, or the upstream's answer with the
\* upstream's status.
C17_OutcomesClosed ==
    (Proxied /\ pc = "done") =>
        \/ /\ reply \in GatewayReplies
           /\ reply.status_code = 500 => ~Truthy(GEMINI_API_KEY)
        \/ /\ reply.kind \in {"Response", "StreamingResponse"}
           /\ reply.status_code = Relayed.status_code
           /\ reply.state = "complete"


\* C18: every call made to the upstream carries the inbound body unchanged,
\* whatever the body is and whether or not the debug preview is on, and a
\* proxied request that passes the token and configuration checks always
\* gets as far as its call to the upstream.
C18_BodyForwardedUnchanged ==
    /\ \A i \in 1..Len(outbound) : outbound[i].content = request.body
    /\ (Proxied /\ PassesChecks /\ pc # "start") =>
          /\ body = request.body
          /\ pc = "request" \/ Len(outbound) >= 1

\* a body that is not valid UTF-8 has been previewed, with the replacement
\* character in the log, and forwarded
C18_Witness ==
    /\ DEBUG_MODE
    /\ request.body = <<"\\xff">>
    /\ \E i \in 1..Len(log) :
          log[i].text = <<"[rid] Request Body (raw): ", "\\ufffd">>
    /\ Len(outbound) >= 1
    /\ outbound[1].content = <<"\\xff">>
    /\ reply.kind = "Response"


\* C19: the client is closed when the handler's work on a request is over,
\* and it is open for as long as the streamed upstream body is being read.
C19_ClientOpenWhileRelaying ==
    /\ pc = "done" => ~client_open
    /\ pc = "relay" => client_open


ConfigError500 ==
    reply = HTTPException(500, <<"Server configuration error: GEMINI_API_KEY not set">>)

\* C20: the 500 configuration error is only returned to a request that passed
\* the token check or was made in open mode, and a proxied request that fails
\* the token check is answered 401 although the key is not configured.
C20_TokenCheckFirst ==
    /\ ConfigError500 => (~Truthy(APP_TOKEN) \/ ExactTokenSupplied)
    /\ (Proxied /\ pc = "done" /\ Truthy(APP_TOKEN) /\ ~ExactTokenSupplied
           /\ ~Truthy(GEMINI_API_KEY)) => Answered401

\* a request with a wrong token has been answered 401 while no key is set
C20_Witness ==
    /\ Proxied
    /\ Truthy(APP_TOKEN)
    /\ TokenLines # {}
    /\ ~ExactTokenSupplied
    /\ ~Truthy(GEMINI_API_KEY)
    /\ Answered401

====
